---- MODULE Spec2Model ----
(***************************************************************************)
(* Model of the AI-assisted language server (src/src/server.ts): the text  *)
(* position helpers, the response parsers, the inference call and the four *)
(* request handlers.  Strings are sequences of one-character strings, and  *)
(* offsets are 0-based as in the source.                                   *)
(***************************************************************************)
EXTENDS Integers, Sequences, FiniteSets, TLC

VARIABLES
    pc,             \* position of the text / parser harness
    arg,            \* input of the pure function under check
    ret,            \* value the pure function returned
    documents,      \* TextDocuments: the open buffer's text
    apiKey,         \* HUGGINGFACE_API_KEY is set
    calls           \* one record per handler invocation

vars == <<pc, arg, ret, documents, apiKey, calls>>

----------------------------------------------------------------------------
(* Bounds *)

MaxLineLen == 4
MaxTextLen == 5
MaxInvocations == 2
MaxDocLen == 8
MaxCursorLine == 9
MaxSignatureLen == 5

----------------------------------------------------------------------------
(* Characters *)

Letters == {"a", "b", "f", "o", "r", "x", "y", "e", "t", "u", "n"}
Digits == {"0", "1", "2", "3", "4", "5", "6", "7", "8", "9"}
Whitespace == {" ", "\n"}

(* JavaScript regex class \w: [A-Za-z0-9_] *)
RegexW(c) == c \in Letters \cup Digits \cup {"_"}

(* JavaScript regex class \d *)
RegexD(c) == c \in Digits

(* /[\w\d\._]/.test(c), also /[\w\._]/.test(c): the same set of characters *)
WordCharTest(c) == RegexW(c) \/ RegexD(c) \/ c = "." \/ c = "_"

----------------------------------------------------------------------------
(* JavaScript string primitives used by the server *)

Min(a, b) == IF a < b THEN a ELSE b
Max(a, b) == IF a > b THEN a ELSE b

(* String.prototype.substring(from, to): both ends clamped to [0, length] *)
substring(s, from, to) ==
    LET f == Max(0, Min(from, Len(s)))
        t == Max(0, Min(to, Len(s)))
        lo == Min(f, t)
        hi == Max(f, t)
    IN  SubSeq(s, lo + 1, hi)

(* String.prototype.lastIndexOf(ch): 0-based index, or -1 *)
lastIndexOf(s, ch) ==
    LET hits == {i \in 1..Len(s) : s[i] = ch}
    IN  IF hits = {} THEN -1
        ELSE (CHOOSE i \in hits : \A j \in hits : j <= i) - 1

(* String.prototype.trim() *)
RECURSIVE trimStart(_)
trimStart(s) ==
    IF s # <<>> /\ Head(s) \in Whitespace THEN trimStart(Tail(s)) ELSE s

RECURSIVE trimEnd(_)
trimEnd(s) ==
    IF s # <<>> /\ s[Len(s)] \in Whitespace
    THEN trimEnd(SubSeq(s, 1, Len(s) - 1))
    ELSE s

trim(s) == trimEnd(trimStart(s))

(* String.prototype.split(ch) on a one-character separator: never empty *)
RECURSIVE splitAcc(_, _, _)
splitAcc(s, ch, cur) ==
    IF s = <<>> THEN <<cur>>
    ELSE IF Head(s) = ch THEN <<cur>> \o splitAcc(Tail(s), ch, <<>>)
    ELSE splitAcc(Tail(s), ch, Append(cur, Head(s)))

split(s, ch) == splitAcc(s, ch, <<>>)

(* Array.prototype.join(ch) *)
RECURSIVE join(_, _)
join(parts, ch) ==
    IF parts = <<>> THEN <<>>
    ELSE IF Len(parts) = 1 THEN parts[1]
    ELSE parts[1] \o <<ch>> \o join(Tail(parts), ch)

(* Array.prototype.filter *)
RECURSIVE filterNonBlank(_)
filterNonBlank(parts) ==
    IF parts = <<>> THEN <<>>
    ELSE IF Len(trim(Head(parts))) > 0
         THEN <<Head(parts)>> \o filterNonBlank(Tail(parts))
         ELSE filterNonBlank(Tail(parts))

----------------------------------------------------------------------------
(* Text-position helpers *)

(* the for-of loop of getCurrentParameterIndex *)
RECURSIVE countParams(_, _, _)
countParams(s, paramCount, nestedLevel) ==
    IF s = <<>> THEN paramCount
    ELSE IF Head(s) = "(" THEN countParams(Tail(s), paramCount, nestedLevel + 1)
    ELSE IF Head(s) = ")" THEN countParams(Tail(s), paramCount, nestedLevel - 1)
    ELSE IF Head(s) = "," /\ nestedLevel = 0
         THEN countParams(Tail(s), paramCount + 1, nestedLevel)
    ELSE countParams(Tail(s), paramCount, nestedLevel)

getCurrentParameterIndex(line, position) ==
    LET textToCursor == substring(line, 0, position)
        openParenIndex == lastIndexOf(textToCursor, "(")
        relevantText == substring(textToCursor, openParenIndex + 1, Len(textToCursor))
    IN  IF openParenIndex = -1 THEN 0
        ELSE countParams(relevantText, 0, 0)

(* while (start > 0 && test(line[start - 1])) start-- *)
RECURSIVE scanLeft(_, _)
scanLeft(line, start) ==
    IF start > 0 /\ WordCharTest(line[start]) THEN scanLeft(line, start - 1)
    ELSE start

(* while (end < line.length && test(line[end])) end++ *)
RECURSIVE scanRight(_, _)
scanRight(line, end) ==
    IF end < Len(line) /\ WordCharTest(line[end + 1]) THEN scanRight(line, end + 1)
    ELSE end

(* null is <<>>, a range is <<[start, end]>> *)
WordRangeNoScanLeft(line, position) ==
    IF line = <<>> \/ position < 0 \/ position >= Len(line) THEN <<>>
    ELSE IF ~WordCharTest(line[position + 1]) THEN <<>>
    ELSE LET end == scanRight(line, position + 1)
         IN  <<[start |-> position, end |-> end]>>

getWordRangeAtPosition(line, position) ==
    IF line = <<>> \/ position < 0 \/ position >= Len(line) THEN <<>>
    ELSE IF ~WordCharTest(line[position + 1]) THEN <<>>
    ELSE LET start == scanLeft(line, position)
             end == scanRight(line, position + 1)
         IN  IF start = end \/ end <= start THEN <<>>
             ELSE <<[start |-> start, end |-> end]>>

----------------------------------------------------------------------------
(* Harness for the text-position helpers: every line over LineAlphabet up   *)
(* to MaxLineLen, the worked example of the specification, and every        *)
(* cursor offset from -1 to one past the end.                               *)

LineAlphabet == {"a", ".", "(", ")", ","}

RECURSIVE SeqsUpTo(_, _)
SeqsUpTo(S, n) ==
    IF n = 0 THEN {<<>>}
    ELSE LET shorter == SeqsUpTo(S, n - 1)
         IN  shorter \cup {Append(s, c) : s \in shorter, c \in S}

ExampleLine ==
    <<"f", "o", "o", "(", "a", ",", " ", "b", "a", "r", "(", "1", ",", "2", ")", ",", " ">>

Lines == SeqsUpTo(LineAlphabet, MaxLineLen) \cup {ExampleLine}

IdleDocuments == <<>>
IdleCalls == <<>>

InitText ==
    /\ pc = "input"
    /\ \E l \in Lines : \E p \in -1..(Len(l) + 1) : arg = [line |-> l, position |-> p]
    /\ ret = <<>>
    /\ documents = IdleDocuments
    /\ apiKey = TRUE
    /\ calls = IdleCalls

ParameterIndexStep ==
    /\ pc = "input"
    /\ pc' = "param"
    /\ ret' = getCurrentParameterIndex(arg.line, arg.position)
    /\ UNCHANGED <<arg, documents, apiKey, calls>>

WordRangeStep ==
    /\ pc = "input"
    /\ pc' = "word"
    /\ ret' = getWordRangeAtPosition(arg.line, arg.position)
    /\ UNCHANGED <<arg, documents, apiKey, calls>>

NextText == ParameterIndexStep \/ WordRangeStep

SpecText == InitText /\ [][NextText]_vars

----------------------------------------------------------------------------
(* Reference reading of "the last unmatched open parenthesis left of pos"   *)
(* and of "commas at nesting depth 0", used to state C1.                    *)

CursorPrefix(line, position) == SubSeq(line, 1, Min(Max(position, 0), Len(line)))

(* scanning left from the cursor; pending counts the ')' still to be matched *)
RECURSIVE LastUnmatchedOpen(_, _, _)
LastUnmatchedOpen(s, i, pending) ==
    IF i = 0 THEN -1
    ELSE IF s[i] = ")" THEN LastUnmatchedOpen(s, i - 1, pending + 1)
    ELSE IF s[i] = "(" /\ pending > 0 THEN LastUnmatchedOpen(s, i - 1, pending - 1)
    ELSE IF s[i] = "(" THEN i - 1
    ELSE LastUnmatchedOpen(s, i - 1, pending)

RECURSIVE DepthZeroCommas(_, _)
DepthZeroCommas(s, depth) ==
    IF s = <<>> THEN 0
    ELSE IF Head(s) = "(" THEN DepthZeroCommas(Tail(s), depth + 1)
    ELSE IF Head(s) = ")" THEN DepthZeroCommas(Tail(s), depth - 1)
    ELSE (IF Head(s) = "," /\ depth = 0 THEN 1 ELSE 0) + DepthZeroCommas(Tail(s), depth)

ExpectedParameterIndex(line, position) ==
    LET t == CursorPrefix(line, position)
        open == LastUnmatchedOpen(t, Len(t), 0)
    IN  IF open = -1 THEN 0
        ELSE DepthZeroCommas(SubSeq(t, open + 2, Len(t)), 0)

(* C1: for every line and cursor offset, getCurrentParameterIndex returns 0 *)
(* when no unmatched '(' lies left of the cursor, and otherwise the number  *)
(* of depth-0 commas between the last unmatched '(' and the cursor, which   *)
(* is 2 for ExampleLine at its end.                                         *)
C1_ParameterIndexCountsDepthZeroCommas ==
    pc = "param" => ret = ExpectedParameterIndex(arg.line, arg.position)

(* Identifier characters as C10 names them: letter, digit, underscore, dot *)
IdentifierChar(c) == c \in Letters \cup Digits \cup {"_", "."}

(* C10: when the character at pos is an identifier character the helper    *)
(* returns [start, end) with start <= pos < end, all identifier characters, *)
(* maximal on both sides; for every other input it returns none.           *)
C10_WordRangeMaximalOrNone ==
    pc = "word" =>
        LET line == arg.line
            pos == arg.position
        IN  IF pos >= 0 /\ pos < Len(line) /\ IdentifierChar(line[pos + 1])
            THEN /\ Len(ret) = 1
                 /\ ret[1].start <= pos /\ pos < ret[1].end
                 /\ ret[1].start >= 0 /\ ret[1].end <= Len(line)
                 /\ \A i \in ret[1].start..(ret[1].end - 1) : IdentifierChar(line[i + 1])
                 /\ ret[1].start > 0 => ~IdentifierChar(line[ret[1].start])
                 /\ ret[1].end < Len(line) => ~IdentifierChar(line[ret[1].end + 1])
            ELSE ret = <<>>

(* a word range strictly wider than the cursor on both sides was returned *)
C10_Witness ==
    /\ pc = "word"
    /\ Len(ret) = 1
    /\ ret[1].start < arg.position
    /\ arg.position + 1 < ret[1].end
    /\ ret[1].start > 0

----------------------------------------------------------------------------
(* Completion parser (getAICompletion after the inference call)             *)

(* the maximal run of digits at the head of s *)
RECURSIVE digitRun(_)
digitRun(s) ==
    IF s # <<>> /\ RegexD(Head(s)) THEN 1 + digitRun(Tail(s)) ELSE 0

(* String.prototype.split(/\d+\./): a separator is a maximal digit run      *)
(* directly followed by a dot, wherever it stands in the text               *)
RECURSIVE splitNumberingAcc(_, _)
splitNumberingAcc(s, cur) ==
    IF s = <<>> THEN <<cur>>
    ELSE LET n == digitRun(s)
         IN  IF n > 0 /\ Len(s) > n /\ s[n + 1] = "."
             THEN <<cur>> \o splitNumberingAcc(SubSeq(s, n + 2, Len(s)), <<>>)
             ELSE IF n > 0
             THEN splitNumberingAcc(SubSeq(s, n + 1, Len(s)), cur \o SubSeq(s, 1, n))
             ELSE splitNumberingAcc(Tail(s), Append(cur, Head(s)))

splitNumbering(s) == splitNumberingAcc(s, <<>>)

(* String(index) for index >= 0 *)
DigitChar(d) ==
    CASE d = 0 -> "0" [] d = 1 -> "1" [] d = 2 -> "2" [] d = 3 -> "3" [] d = 4 -> "4"
      [] d = 5 -> "5" [] d = 6 -> "6" [] d = 7 -> "7" [] d = 8 -> "8" [] d = 9 -> "9"

RECURSIVE toString(_)
toString(n) ==
    IF n < 10 THEN <<DigitChar(n)>>
    ELSE Append(toString(n \div 10), DigitChar(n % 10))

(* String.prototype.padStart(width, ch) *)
RECURSIVE padStart(_, _, _)
padStart(s, width, ch) ==
    IF Len(s) >= width THEN s ELSE padStart(<<ch>> \o s, width, ch)

PadWidth == 5

CompletionItem(label, sortText) ==
    [label |-> label, kind |-> "Text", sortText |-> sortText, insertText |-> label]

(* suggestions.forEach((suggestion, index) => ...) *)
RECURSIVE suggestionItems(_, _)
suggestionItems(suggestions, index) ==
    IF suggestions = <<>> THEN <<>>
    ELSE LET cleanSuggestion == trim(Head(suggestions))
             rest == suggestionItems(Tail(suggestions), index + 1)
         IN  IF cleanSuggestion # <<>>
             THEN <<CompletionItem(cleanSuggestion,
                                   padStart(toString(index), PadWidth, "0"))>> \o rest
             ELSE rest

parseCompletion(completionText) ==
    LET suggestions == filterNonBlank(splitNumbering(completionText))
    IN  IF Len(suggestions) = 0 /\ Len(trim(completionText)) > 0
        THEN <<CompletionItem(trim(completionText), <<"0", "0", "0", "0", "0">>)>>
        ELSE suggestionItems(suggestions, 0)

----------------------------------------------------------------------------
(* Options: undefined / null is <<>>, a value v is <<v>>                    *)

Undefined == <<>>
Some(v) == <<v>>

(* Array.prototype.slice(from, to), 0 <= from *)
slice(a, from, to) == SubSeq(a, from + 1, Min(to, Len(a)))

(* lines[index] *)
elementAt(a, index) ==
    IF index >= 0 /\ index < Len(a) THEN Some(a[index + 1]) ELSE Undefined

----------------------------------------------------------------------------
(* callHuggingFaceAPI: the promise, and the 'end' callback of the response  *)

OkStatus == 200

MissingKeyMessage == "Hugging Face API Key is missing"
TimedOutMessage == "Request timed out"
TransportError == "transport error"

NoPromise == [state |-> "none", text |-> <<>>, error |-> ""]
Pending == [state |-> "pending", text |-> <<>>, error |-> ""]
Resolved(text) == [state |-> "resolved", text |-> text, error |-> ""]
Rejected(error) == [state |-> "rejected", text |-> <<>>, error |-> error]

(* JSON bodies: an object with or without generated_text, an array of such  *)
(* objects or nulls, null, or text that JSON.parse rejects                  *)
JsonObject(generated) == [json |-> "object", generated |-> generated, elems |-> <<>>]
JsonArray(elems) == [json |-> "array", generated |-> Undefined, elems |-> elems]
JsonNull == [json |-> "null", generated |-> Undefined, elems |-> <<>>]
Malformed == [json |-> "malformed", generated |-> Undefined, elems |-> <<>>]

(* v.generated_text is truthy; reading it off null throws *)
Truthy(generated) == generated # Undefined /\ generated[1] # <<>>

ResponseTextObjectOnly(status, body) ==
    IF status # OkStatus THEN <<>>
    ELSE IF body.json \in {"malformed", "null"} THEN <<>>
    ELSE IF Truthy(body.generated) THEN body.generated[1]
    ELSE <<>>

(* res.on('end'): the value the promise is resolved with *)
responseText(status, body) ==
    IF status # OkStatus THEN <<>>
    ELSE IF body.json = "malformed" THEN <<>>
    ELSE IF body.json = "null" THEN <<>>
    ELSE IF Truthy(body.generated) THEN body.generated[1]
    ELSE IF body.json = "array" /\ Len(body.elems) > 0
         THEN IF body.elems[1].json = "null" THEN <<>>
              ELSE IF Truthy(body.elems[1].generated) THEN body.elems[1].generated[1]
              ELSE <<>>
    ELSE <<>>

SettleOverwrites(promise, outcome) == outcome

(* a promise settles once: resolve and reject are no-ops afterwards *)
settle(promise, outcome) == IF promise.state = "pending" THEN outcome ELSE promise

RequestBeforeKeyCheck(key) ==
    IF ~key THEN [promise |-> Rejected(MissingKeyMessage), requests |-> 1]
    ELSE [promise |-> Pending, requests |-> 1]

(* the executor of callHuggingFaceAPI up to req.end() *)
callHuggingFaceAPI(key) ==
    IF ~key THEN [promise |-> Rejected(MissingKeyMessage), requests |-> 0]
    ELSE [promise |-> Pending, requests |-> 1]

----------------------------------------------------------------------------
(* Results handed to the editor: tag and value; a handler that throws       *)
(* answers the editor with an error                                         *)

NullResult == [tag |-> "null", val |-> <<>>]
ItemsResult(items) == [tag |-> "items", val |-> items]
ItemResult(item) == [tag |-> "item", val |-> item]
SignatureResult(help) == [tag |-> "signature", val |-> help]
HoverResult(value) == [tag |-> "hover", val |-> value]
ThrownResult(error) == [tag |-> "throw", val |-> error]
NoResult == [tag |-> "none", val |-> <<>>]

NoLocals == [currentLine |-> <<>>, character |-> 0, word |-> <<>>, item |-> <<>>]
NoPrompt == [kind |-> "none", a |-> <<>>, b |-> <<>>]

Returns(result) ==
    [step |-> "return", result |-> result, prompt |-> NoPrompt, locals |-> NoLocals]
Awaits(prompt, locals) ==
    [step |-> "await", result |-> NoResult, prompt |-> prompt, locals |-> locals]

(* documents.get(uri) *)
getDocument(docs, uri) == IF uri \in DOMAIN docs THEN Some(docs[uri]) ELSE Undefined

----------------------------------------------------------------------------
(* connection.onCompletion and getAICompletion                              *)

ContextBefore == 5

ContextToEnd(lines, line) == slice(lines, Max(0, line - ContextBefore), Len(lines))

(* lines.slice(Math.max(0, line - 5), line + 1) *)
contextLines(lines, line) == slice(lines, Max(0, line - ContextBefore), line + 1)

(* an undefined currentLine is interpolated as the text "undefined" *)
interpolate(option) ==
    IF option = Undefined THEN <<"u", "n", "d", "e", "f", "i", "n", "e", "d">>
    ELSE option[1]

onCompletionBegin(docs, req) ==
    LET document == getDocument(docs, req.uri)
    IN  IF document = Undefined THEN Returns(ItemsResult(<<>>))
        ELSE LET lines == split(document[1], "\n")
                 currentLine == elementAt(lines, req.line)
                 context == join(contextLines(lines, req.line), "\n")
             IN  Awaits([kind |-> "completion", a |-> context,
                         b |-> interpolate(currentLine)], NoLocals)

onCompletionSettle(locals, promise) ==
    IF promise.state = "resolved" THEN ItemsResult(parseCompletion(promise.text))
    ELSE ItemsResult(<<>>)

----------------------------------------------------------------------------
(* connection.onCompletionResolve                                           *)

ResolveItemNoFallback(item, docText) ==
    LET lines == split(docText, "\n")
    IN  [label |-> item.label,
         detail |-> Some(trim(lines[1])),
         documentation |-> Some(trim(join(Tail(lines), "\n")))]

resolveItem(item, docText) ==
    LET lines == split(docText, "\n")
        first == trim(lines[1])
        rest == trim(join(Tail(lines), "\n"))
    IN  [label |-> item.label,
         detail |-> Some(first),
         documentation |-> Some(IF rest # <<>> THEN rest ELSE first)]

onCompletionResolveBegin(docs, req) ==
    Awaits([kind |-> "resolve", a |-> req.item.label, b |-> <<>>],
           [NoLocals EXCEPT !.item = Some(req.item)])

onCompletionResolveSettle(locals, promise) ==
    IF promise.state = "resolved" THEN ItemResult(resolveItem(locals.item[1], promise.text))
    ELSE ItemResult(locals.item[1])

----------------------------------------------------------------------------
(* connection.onSignatureHelp                                               *)

(* while (i >= 0 && /[\w\._]/.test(currentLine[i])) functionName = ... *)
RECURSIVE functionNameBefore(_, _)
functionNameBefore(currentLine, i) ==
    IF i >= 0 /\ WordCharTest(currentLine[i + 1])
    THEN Append(functionNameBefore(currentLine, i - 1), currentLine[i + 1])
    ELSE <<>>

(* signature.match(/\((.*?)\)/): the first '(' that has a ')' after it on   *)
(* the same line, and the text up to the first such ')'                     *)
RECURSIVE closeAfter(_, _)
closeAfter(s, i) ==
    IF i > Len(s) \/ s[i] = "\n" THEN 0
    ELSE IF s[i] = ")" THEN i
    ELSE closeAfter(s, i + 1)

RECURSIVE paramMatchFrom(_, _)
paramMatchFrom(s, i) ==
    IF i > Len(s) THEN Undefined
    ELSE IF s[i] = "(" /\ closeAfter(s, i + 1) > 0
         THEN Some(SubSeq(s, i + 1, closeAfter(s, i + 1) - 1))
    ELSE paramMatchFrom(s, i + 1)

paramMatch(signature) == paramMatchFrom(signature, 1)

ParameterWord == <<"P", "a", "r", "a", "m", "e", "t", "e", "r", " ">>

(* params.forEach((param, index) => parameterList.push(...)) *)
RECURSIVE parameterList(_, _)
parameterList(params, index) ==
    IF params = <<>> THEN <<>>
    ELSE <<[label |-> trim(Head(params)),
            documentation |-> ParameterWord \o toString(index + 1)]>>
         \o parameterList(Tail(params), index + 1)

NoDocumentation == "No documentation available."

signatureHelp(signatureText, currentLine, character) ==
    LET signature == trim(signatureText)
        match == paramMatch(signature)
    IN  [signatures |-> <<[label |-> signature,
                           documentation |-> NoDocumentation,
                           parameters |->
                               IF match # Undefined /\ match[1] # <<>>
                               THEN parameterList(split(match[1], ","), 0)
                               ELSE <<>>]>>,
         activeSignature |-> 0,
         activeParameter |-> getCurrentParameterIndex(currentLine, character)]

onSignatureHelpBegin(docs, req) ==
    LET document == getDocument(docs, req.uri)
    IN  IF document = Undefined THEN Returns(NullResult)
        ELSE LET lines == split(document[1], "\n")
                 currentLine == elementAt(lines, req.line)
             IN  IF currentLine = Undefined
                 THEN [Returns(ThrownResult("TypeError")) EXCEPT !.step = "throw"]
                 ELSE LET functionCallStart ==
                              lastIndexOf(substring(currentLine[1], 0, req.character), "(")
                      IN  IF functionCallStart = -1 THEN Returns(NullResult)
                          ELSE Awaits([kind |-> "signature",
                                       a |-> functionNameBefore(currentLine[1],
                                                                functionCallStart - 1),
                                       b |-> <<>>],
                                      [NoLocals EXCEPT !.currentLine = currentLine[1],
                                                       !.character = req.character])

SignatureSettleUncaught(locals, promise) ==
    IF promise.state = "resolved"
    THEN SignatureResult(signatureHelp(promise.text, locals.currentLine, locals.character))
    ELSE ThrownResult(promise.error)

onSignatureHelpSettle(locals, promise) ==
    IF promise.state = "resolved"
    THEN SignatureResult(signatureHelp(promise.text, locals.currentLine, locals.character))
    ELSE NullResult

----------------------------------------------------------------------------
(* connection.onHover                                                       *)

NoInformation ==
    <<"N", "o", " ", "i", "n", "f", "o", "r", "m", "a", "t", "i", "o", "n", " ",
      "a", "v", "a", "i", "l", "a", "b", "l", "e", " ", "f", "o", "r", " ", "'">>

hoverValue(hoverText, word) ==
    IF trim(hoverText) # <<>> THEN trim(hoverText)
    ELSE NoInformation \o word \o <<"'">>

onHoverBegin(docs, req) ==
    LET document == getDocument(docs, req.uri)
    IN  IF document = Undefined THEN Returns(NullResult)
        ELSE LET lines == split(document[1], "\n")
             IN  IF req.line >= Len(lines) THEN Returns(NullResult)
                 ELSE IF req.line < 0
                 THEN [Returns(ThrownResult("TypeError")) EXCEPT !.step = "throw"]
                 ELSE LET line == lines[req.line + 1]
                      IN  IF req.character >= Len(line) THEN Returns(NullResult)
                          ELSE LET wordRange == getWordRangeAtPosition(line, req.character)
                               IN  IF wordRange = <<>> THEN Returns(NullResult)
                                   ELSE LET word == substring(line, wordRange[1].start,
                                                              wordRange[1].end)
                                        IN  IF word = <<>> \/ trim(word) = <<>>
                                            THEN Returns(NullResult)
                                            ELSE Awaits([kind |-> "hover", a |-> word,
                                                         b |-> line],
                                                        [NoLocals EXCEPT !.word = word])

onHoverSettle(locals, promise) ==
    IF promise.state = "resolved" THEN HoverResult(hoverValue(promise.text, locals.word))
    ELSE NullResult

----------------------------------------------------------------------------
(* The four handlers: up to the await, and after it                         *)

handlerBegin(docs, req) ==
    CASE req.kind = "completion" -> onCompletionBegin(docs, req)
      [] req.kind = "resolve" -> onCompletionResolveBegin(docs, req)
      [] req.kind = "signature" -> onSignatureHelpBegin(docs, req)
      [] req.kind = "hover" -> onHoverBegin(docs, req)

HandlerSettlePropagatesMissingKey(kind, locals, promise) ==
    IF promise.state = "rejected" /\ promise.error = MissingKeyMessage
    THEN ThrownResult(promise.error)
    ELSE CASE kind = "completion" -> onCompletionSettle(locals, promise)
           [] kind = "resolve" -> onCompletionResolveSettle(locals, promise)
           [] kind = "signature" -> onSignatureHelpSettle(locals, promise)
           [] kind = "hover" -> onHoverSettle(locals, promise)

handlerSettle(kind, locals, promise) ==
    CASE kind = "completion" -> onCompletionSettle(locals, promise)
      [] kind = "resolve" -> onCompletionResolveSettle(locals, promise)
      [] kind = "signature" -> onSignatureHelpSettle(locals, promise)
      [] kind = "hover" -> onHoverSettle(locals, promise)

----------------------------------------------------------------------------
(* The server: the open document, the credential, and the handler           *)
(* invocations in flight.  An invocation runs to its await in one step      *)
(* (Begin); each event of its request (ResponseEnd, RequestError, Timeout)  *)
(* is one step, and the event that settles the promise runs the handler's   *)
(* continuation to its return in the same step.                             *)

OpenUri == "file:///open.py"
ClosedUri == "file:///closed.py"

(* "f(a,b" / "x.y"  and  "f(,,b" / "ab" *)
DocA == <<"f", "(", "a", ",", "b", "\n", "x", ".", "y">>
DocB == <<"f", "(", ",", ",", "b", "\n", "a", "b">>

(* the edit the editor makes while requests are in flight *)
Edits == {<<DocA, DocB>>}

NoItem == [label |-> <<>>, detail |-> Undefined, documentation |-> Undefined]
NoRequest == [kind |-> "none", uri |-> "", line |-> 0, character |-> 0, item |-> NoItem]

PositionRequest(kind, uri, line, character) ==
    [kind |-> kind, uri |-> uri, line |-> line, character |-> character, item |-> NoItem]

Items ==
    {[label |-> <<"a">>, detail |-> Undefined, documentation |-> Undefined]}

Requests ==
    {PositionRequest("completion", OpenUri, l, 0) : l \in {1, 2}}
    \cup {PositionRequest("signature", OpenUri, 0, 5),
          PositionRequest("signature", OpenUri, 0, 0),
          PositionRequest("signature", OpenUri, 2, 0)}
    \cup {PositionRequest("hover", OpenUri, 1, 0),
          PositionRequest("hover", OpenUri, 1, 9),
          PositionRequest("hover", OpenUri, 2, 0),
          PositionRequest("hover", ClosedUri, 0, 0)}
    \cup {[NoRequest EXCEPT !.kind = "resolve", !.item = it] : it \in Items}

(* "1.a(b,c)" / "2.d " *)
GeneratedText ==
    <<"1", ".", "a", "(", "b", ",", "c", ")", "\n", "2", ".", "d", " ">>

Reply(status, body) == [status |-> status, body |-> body]

HandlerReplies ==
    {Reply(200, JsonObject(Some(GeneratedText))),
     Reply(500, JsonObject(Some(GeneratedText))),
     Reply(200, Malformed)}

Idle ==
    [pc |-> "idle", req |-> NoRequest, startDocs |-> <<>>, prompt |-> NoPrompt,
     locals |-> NoLocals, promise |-> NoPromise, requests |-> 0,
     ended |-> FALSE, errored |-> FALSE, timedOut |-> FALSE, result |-> NoResult]

Init ==
    /\ pc = "serve"
    /\ arg = <<>>
    /\ ret = <<>>
    /\ documents = [u \in {OpenUri} |-> DocA]
    /\ apiKey \in BOOLEAN
    /\ calls = [i \in 1..MaxInvocations |-> Idle]

(* the continuation after the await reads the locals captured before it *)
ResumeFromLiveDocument(docs, call) ==
    handlerSettle(call.req.kind, handlerBegin(docs, call.req).locals, call.promise)

resumeResult(docs, call) == handlerSettle(call.req.kind, call.locals, call.promise)

DeliveredRereadsDocument(docs, call, promise) ==
    LET settled == [call EXCEPT !.promise = promise,
                                !.locals = handlerBegin(docs, call.req).locals]
    IN  IF call.pc = "await" /\ promise.state # "pending"
        THEN [settled EXCEPT !.pc = "done", !.result = resumeResult(docs, settled)]
        ELSE settled

(* a promise that settles while the handler awaits it: the continuation is  *)
(* a microtask, run before the event loop takes its next event              *)
delivered(docs, call, promise) ==
    LET settled == [call EXCEPT !.promise = promise]
    IN  IF call.pc = "await" /\ promise.state # "pending"
        THEN [settled EXCEPT !.pc = "done", !.result = resumeResult(docs, settled)]
        ELSE settled

(* the editor sends a request: the handler runs up to its await, or to its  *)
(* return when it never reaches the inference call                          *)
Begin(i, req) ==
    /\ calls[i].pc = "idle"
    /\ i > 1 => calls[i - 1].pc # "idle"
    /\ LET b == handlerBegin(documents, req)
           c == callHuggingFaceAPI(apiKey)
       IN  calls' = [calls EXCEPT ![i] =
               IF b.step = "await"
               THEN delivered(documents,
                              [Idle EXCEPT !.pc = "await", !.req = req,
                                           !.startDocs = documents, !.prompt = b.prompt,
                                           !.locals = b.locals, !.promise = Pending,
                                           !.requests = c.requests],
                              c.promise)
               ELSE [Idle EXCEPT !.pc = "done", !.req = req, !.startDocs = documents,
                                 !.result = b.result]]
    /\ UNCHANGED <<pc, arg, ret, documents, apiKey>>

OnEndRejectsUnparsed(promise, status, body) ==
    IF status = OkStatus /\ body.json \in {"malformed", "null"}
    THEN settle(promise, Rejected("SyntaxError"))
    ELSE settle(promise, Resolved(responseText(status, body)))

(* res.on('end') *)
onEnd(promise, status, body) == settle(promise, Resolved(responseText(status, body)))

ResponseEnd(i, reply) ==
    /\ calls[i].requests = 1
    /\ ~calls[i].ended /\ ~calls[i].errored
    /\ calls' = [calls EXCEPT ![i] =
           [delivered(documents, @, onEnd(@.promise, reply.status, reply.body))
               EXCEPT !.ended = TRUE]]
    /\ UNCHANGED <<pc, arg, ret, documents, apiKey>>

(* req.on('error') *)
onError(promise) == settle(promise, Rejected(TransportError))

RequestError(i) ==
    /\ calls[i].requests = 1
    /\ ~calls[i].ended /\ ~calls[i].errored
    /\ calls' = [calls EXCEPT ![i] =
           [delivered(documents, @, onError(@.promise)) EXCEPT !.errored = TRUE]]
    /\ UNCHANGED <<pc, arg, ret, documents, apiKey>>

(* req.setTimeout(5000, ...): the request is not aborted *)
TimeoutMs == 5000

TimeoutResolvesEmpty(promise) == settle(promise, Resolved(<<>>))

TimeoutLogsOnly(promise) == promise

onTimeout(promise) == settle(promise, Rejected(TimedOutMessage))

Timeout(i) ==
    /\ calls[i].requests = 1
    /\ ~calls[i].timedOut /\ ~calls[i].ended /\ ~calls[i].errored
    /\ calls' = [calls EXCEPT ![i] =
           [delivered(documents, @, onTimeout(@.promise)) EXCEPT !.timedOut = TRUE]]
    /\ UNCHANGED <<pc, arg, ret, documents, apiKey>>

(* documents.listen(connection): the editor's edit replaces the buffer *)
DocumentChange(edit) ==
    /\ pc = "serve"
    /\ documents[OpenUri] = edit[1]
    /\ documents' = [documents EXCEPT ![OpenUri] = edit[2]]
    /\ UNCHANGED <<pc, arg, ret, apiKey, calls>>

Next ==
    \/ \E i \in 1..MaxInvocations : \E req \in Requests : Begin(i, req)
    \/ \E i \in 1..MaxInvocations : \E reply \in HandlerReplies : ResponseEnd(i, reply)
    \/ \E i \in 1..MaxInvocations : RequestError(i)
    \/ \E i \in 1..MaxInvocations : Timeout(i)
    \/ \E edit \in Edits : DocumentChange(edit)

Spec == Init /\ [][Next]_vars

(* the socket's idle timer fires unless the request ends or fails first *)
FairSpec == Spec /\ \A i \in 1..MaxInvocations : WF_vars(Timeout(i))

----------------------------------------------------------------------------
(* Claims about the handlers                                                *)

PositionKinds == {"completion", "signature", "hover"}

(* the kind-appropriate empty result: no candidates, the item as it came,   *)
(* no signature, no hover                                                   *)
EmptyResult(req) ==
    CASE req.kind = "completion" -> ItemsResult(<<>>)
      [] req.kind = "resolve" -> ItemResult(req.item)
      [] req.kind \in {"signature", "hover"} -> NullResult

LineCount(text) == Cardinality({k \in 1..Len(text) : text[k] = "\n"}) + 1

(* the request's line is outside [0, lineCount) of the document it names *)
LineOutOfRange(call) ==
    /\ call.req.kind \in PositionKinds
    /\ call.req.uri \in DOMAIN call.startDocs
    /\ \/ call.req.line < 0
       \/ call.req.line >= LineCount(call.startDocs[call.req.uri])

ReachedInference(call) == call.prompt.kind # "none"

(* C2: a completion, signature-help or hover request whose line is outside  *)
(* the document returns the empty result at once, does not throw and        *)
(* issues no upstream request.                                              *)
C2_OutOfRangeLineRejected ==
    \A i \in 1..MaxInvocations :
        (calls[i].pc # "idle" /\ LineOutOfRange(calls[i])) =>
            /\ calls[i].requests = 0
            /\ calls[i].pc = "done"
            /\ calls[i].result = EmptyResult(calls[i].req)

(* C3: when the inference call fails by timeout or transport error, the     *)
(* handler returns its empty result and does not throw.                     *)
C3_FailureGivesEmptyResult ==
    \A i \in 1..MaxInvocations :
        (/\ calls[i].pc = "done"
         /\ calls[i].promise.state = "rejected"
         /\ calls[i].promise.error # MissingKeyMessage) =>
            calls[i].result = EmptyResult(calls[i].req)

(* a resolve request and a signature request both ended by a failed call *)
C3_Witness ==
    \E i, j \in 1..MaxInvocations :
        /\ calls[i].pc = "done" /\ calls[i].req.kind = "resolve"
        /\ calls[i].promise = Rejected(TimedOutMessage)
        /\ calls[j].pc = "done" /\ calls[j].req.kind = "signature"
        /\ calls[j].promise = Rejected(TransportError)

C5_UnavailableGivesEmptyResult ==
    \A i \in 1..MaxInvocations :
        (calls[i].pc = "done" /\ calls[i].promise = Resolved(<<>>)) =>
            calls[i].result = EmptyResult(calls[i].req)

(* C6: every invocation waiting on the inference call eventually returns.   *)
C6_EveryInvocationReturns ==
    \A i \in 1..MaxInvocations : (calls[i].pc = "await") ~> (calls[i].pc = "done")

(* an invocation whose wait was ended by the timeout alone *)
C6_Witness ==
    \E i \in 1..MaxInvocations :
        /\ calls[i].pc = "done"
        /\ calls[i].timedOut /\ ~calls[i].ended /\ ~calls[i].errored
        /\ calls[i].promise = Rejected(TimedOutMessage)

(* the result of one invocation run by itself on the given document,        *)
(* with the given outcome of its inference call                             *)
RunAlone(docs, req, outcome) ==
    LET b == handlerBegin(docs, req)
    IN  IF b.step = "await" THEN handlerSettle(req.kind, b.locals, outcome)
        ELSE b.result

(* C7: however the invocations interleave, each returns what it would       *)
(* return alone on the document it started with and the outcome its own     *)
(* call had, sends the prompt it would send alone, and no handler step      *)
(* writes the document buffers.                                             *)
C7_InterleavingIsInvisible ==
    /\ [](\A i \in 1..MaxInvocations :
            /\ calls[i].pc # "idle" =>
                   calls[i].prompt = handlerBegin(calls[i].startDocs, calls[i].req).prompt
            /\ calls[i].pc = "done" =>
                   calls[i].result =
                       RunAlone(calls[i].startDocs, calls[i].req, calls[i].promise))
    /\ [][calls' # calls => documents' = documents]_vars

(* a later invocation returned, after an edit, while an earlier one waits *)
C7_Witness ==
    /\ calls[1].pc = "await" /\ calls[1].req.kind = "signature"
    /\ calls[2].pc = "done" /\ calls[2].req.kind = "signature"
    /\ calls[2].promise.state = "resolved"
    /\ calls[1].startDocs # calls[2].startDocs

(* C13: an invocation issues no upstream request when the credential is    *)
(* absent or the handler never reaches the inference call, and exactly one  *)
(* otherwise; no event of that request (response of any status or body,     *)
(* transport error, timeout) changes the number issued.                     *)
C13_AtMostOneRequest ==
    /\ [](\A i \in 1..MaxInvocations :
            calls[i].pc # "idle" =>
                calls[i].requests =
                    IF ReachedInference(calls[i]) /\ apiKey THEN 1 ELSE 0)
    /\ [][\A i \in 1..MaxInvocations :
              calls[i].pc # "idle" => calls'[i].requests = calls[i].requests]_vars

(* a request that timed out and whose response completed afterwards *)
C13_Witness ==
    \E i \in 1..MaxInvocations :
        /\ calls[i].pc = "done" /\ calls[i].timedOut /\ calls[i].ended
        /\ calls[i].requests = 1

(* the line the signature-help handler captured when it started *)
StartLine(call) == split(call.startDocs[call.req.uri], "\n")[call.req.line + 1]

(* C19: the prompt and the result of an invocation are those of the         *)
(* document it read when it started, whatever edit came while its call was  *)
(* pending (signature-help's active parameter is counted on the line        *)
(* captured before the call); an edit changes no invocation, and no         *)
(* invocation's step changes the document buffers.                          *)
C19_EditWhilePendingIsInvisible ==
    /\ [](\A i \in 1..MaxInvocations :
            (calls[i].pc # "idle" /\ ReachedInference(calls[i])) =>
                LET b == handlerBegin(calls[i].startDocs, calls[i].req)
                IN  /\ calls[i].prompt = b.prompt
                    /\ calls[i].pc = "done" =>
                           /\ calls[i].result =
                                  handlerSettle(calls[i].req.kind, b.locals, calls[i].promise)
                           /\ calls[i].result.tag = "signature" =>
                                  calls[i].result.val.activeParameter =
                                      getCurrentParameterIndex(StartLine(calls[i]),
                                                               calls[i].req.character))
    /\ [][documents' # documents => calls' = calls]_vars
    /\ [][\A i \in 1..MaxInvocations :
              calls'[i] # calls[i] => documents' = documents]_vars

(* signature help at "f(a,b" answered after the line became "f(,,b", with   *)
(* another invocation begun before the edit still waiting                   *)
C19_Witness ==
    /\ documents[OpenUri] = DocB
    /\ calls[1].pc = "done" /\ calls[1].startDocs[OpenUri] = DocA
    /\ calls[1].req = PositionRequest("signature", OpenUri, 0, 5)
    /\ calls[1].result.tag = "signature"
    /\ calls[1].result.val.activeParameter = 1
    /\ getCurrentParameterIndex(split(documents[OpenUri], "\n")[1], 5) = 2
    /\ calls[2].pc = "await" /\ calls[2].startDocs[OpenUri] = DocA

----------------------------------------------------------------------------
(* Harness for the response parsers: every generated text over              *)
(* TextAlphabet up to MaxTextLen and the worked examples.                   *)

TextAlphabet == {"1", ".", "a", " ", "\n"}

ExampleNumbered ==
    <<"1", ".", " ", "x", " ", "=", " ", "1", "\n", "2", ".", " ", "y", " ", "=", " ", "2">>

ExampleBlob == <<"r", "e", "t", "u", "r", "n", " ", "x", " ", "+", " ", "y">>

ExampleDecimal == <<"x", " ", "=", " ", "1", ".", "5">>

ExampleDecimalItem == <<"1", ".", " ", "x", " ", "=", " ", "1", ".", "5">>

(* "Adds two numbers." / "Returns sum." *)
ExampleDocText ==
    <<"A", "d", "d", "s", " ", "t", "w", "o", " ", "n", "u", "m", "b", "e", "r", "s", ".",
      "\n", "R", "e", "t", "u", "r", "n", "s", " ", "s", "u", "m", ".">>

Texts == SeqsUpTo(TextAlphabet, MaxTextLen)
            \cup {ExampleNumbered, ExampleBlob, ExampleDecimal, ExampleDecimalItem,
                  ExampleDocText}

InitParse ==
    /\ pc = "input"
    /\ \E t \in Texts : arg = [text |-> t]
    /\ ret = <<>>
    /\ documents = IdleDocuments
    /\ apiKey = TRUE
    /\ calls = IdleCalls

CompletionParseStep ==
    /\ pc = "input"
    /\ pc' = "completion"
    /\ ret' = parseCompletion(arg.text)
    /\ UNCHANGED <<arg, documents, apiKey, calls>>

(* onCompletionResolve after the inference call, on a bare item *)
ResolveParseStep ==
    /\ pc = "input"
    /\ pc' = "resolve"
    /\ \E item \in Items : ret' = resolveItem(item, arg.text)
    /\ UNCHANGED <<arg, documents, apiKey, calls>>

NextParse == CompletionParseStep \/ ResolveParseStep

SpecParse == InitParse /\ [][NextParse]_vars

----------------------------------------------------------------------------
(* Reference reading of "numbered list" and of its items, used to state C8  *)
(* and C9: a line is numbered when, after leading blanks, it starts with    *)
(* digits followed by a dot; an item runs from one numbered line start to   *)
(* the next.                                                                *)

NumberingLength(l) ==
    LET u == trimStart(l)
        n == digitRun(u)
    IN  IF n > 0 /\ Len(u) > n /\ u[n + 1] = "." THEN (Len(l) - Len(u)) + n + 1 ELSE 0

IsNumberedList(t) ==
    \E i \in 1..Len(split(t, "\n")) : NumberingLength(split(t, "\n")[i]) > 0

RECURSIVE ItemsOfLines(_, _)
ItemsOfLines(ls, cur) ==
    IF ls = <<>> THEN <<cur>>
    ELSE LET n == NumberingLength(Head(ls))
         IN  IF n > 0
             THEN <<cur>> \o ItemsOfLines(Tail(ls), SubSeq(Head(ls), n + 1, Len(Head(ls))))
             ELSE ItemsOfLines(Tail(ls), cur \o <<"\n">> \o Head(ls))

FiveDigits(k) ==
    <<DigitChar((k \div 10000) % 10), DigitChar((k \div 1000) % 10),
      DigitChar((k \div 100) % 10), DigitChar((k \div 10) % 10), DigitChar(k % 10)>>

RECURSIVE CandidatesOfItems(_, _)
CandidatesOfItems(items, k) ==
    IF items = <<>> THEN <<>>
    ELSE IF trim(Head(items)) = <<>> THEN CandidatesOfItems(Tail(items), k)
    ELSE <<[label |-> trim(Head(items)), kind |-> "Text",
            sortText |-> FiveDigits(k), insertText |-> trim(Head(items))]>>
         \o CandidatesOfItems(Tail(items), k + 1)

ExpectedNumberedCandidates(t) ==
    CandidatesOfItems(ItemsOfLines(split(t, "\n"), <<>>), 0)

(* C8: a non-blank text that is not a numbered list gives exactly one       *)
(* candidate: label and insertion text the full trimmed text, key "00000".  *)
C8_UnnumberedBlobIsOneCandidate ==
    (pc = "completion" /\ trim(arg.text) # <<>> /\ ~IsNumberedList(arg.text)) =>
        ret = <<[label |-> trim(arg.text), kind |-> "Text",
                 sortText |-> <<"0", "0", "0", "0", "0">>,
                 insertText |-> trim(arg.text)]>>

(* C9: a numbered list gives one candidate per non-blank item, in order,    *)
(* the k-th with the trimmed item as label and insertion text and the       *)
(* 5-digit zero-padded k as sort key.  Stated for the lists that have a     *)
(* non-blank item; text before the first number counts as an item.          *)
C9_NumberedListOneCandidatePerItem ==
    (/\ pc = "completion"
     /\ IsNumberedList(arg.text)
     /\ ExpectedNumberedCandidates(arg.text) # <<>>) =>
        ret = ExpectedNumberedCandidates(arg.text)

----------------------------------------------------------------------------
(* Harness for one inference call: callHuggingFaceAPI run by itself, with   *)
(* every status and body shape of the upstream answer.  ret is the call:    *)
(* its promise, the requests it issued, the events of its request in the    *)
(* order they happened, the reply its response carried, and how often the   *)
(* promise changed state.                                                   *)

TextOne == <<"o", "n", "e">>
TextTwo == <<"t", "w", "o">>

(* a number, a string or a boolean: JSON.parse accepts it, it has no        *)
(* generated_text and is not an array                                       *)
JsonScalar == [json |-> "scalar", generated |-> Undefined, elems |-> <<>>]

Elements ==
    {JsonObject(Some(TextOne)), JsonObject(Some(<<>>)), JsonObject(Undefined),
     JsonNull, JsonScalar}

Bodies ==
    {JsonObject(Some(TextOne)), JsonObject(Some(TextTwo)), JsonObject(Some(<<>>)),
     JsonObject(Undefined), JsonNull, JsonScalar, Malformed, JsonArray(<<>>)}
    \cup {JsonArray(<<e>>) : e \in Elements}
    \cup {JsonArray(<<e, JsonObject(Some(TextTwo))>>) : e \in Elements}

Statuses == {200, 201, 204, 301, 404, 500, 503}

Replies == {Reply(status, body) : status \in Statuses, body \in Bodies}

NoReply == Reply(0, JsonNull)

CallIdle ==
    [promise |-> NoPromise, requests |-> 0, ended |-> FALSE, errored |-> FALSE,
     timedOut |-> FALSE, history |-> <<>>, reply |-> NoReply, changes |-> 0]

(* the call after one event of its request: the promise the callback left   *)
recorded(call, event, promise) ==
    [call EXCEPT !.promise = promise,
                 !.history = Append(@, event),
                 !.changes = IF promise # call.promise THEN @ + 1 ELSE @]

InitCall ==
    /\ pc = "input"
    /\ arg = <<>>
    /\ ret = CallIdle
    /\ documents = IdleDocuments
    /\ apiKey \in BOOLEAN
    /\ calls = IdleCalls

(* new Promise(executor): the executor runs at once, up to req.end() *)
CallStart ==
    /\ pc = "input"
    /\ pc' = "call"
    /\ LET c == callHuggingFaceAPI(apiKey)
       IN  ret' = [recorded([CallIdle EXCEPT !.promise = Pending], "start", c.promise)
                      EXCEPT !.requests = c.requests]
    /\ UNCHANGED <<arg, documents, apiKey, calls>>

CallResponseEnd(reply) ==
    /\ pc = "call"
    /\ ret.requests = 1
    /\ ~ret.ended /\ ~ret.errored
    /\ ret' = [recorded(ret, "end", onEnd(ret.promise, reply.status, reply.body))
                  EXCEPT !.ended = TRUE, !.reply = reply]
    /\ UNCHANGED <<pc, arg, documents, apiKey, calls>>

CallRequestError ==
    /\ pc = "call"
    /\ ret.requests = 1
    /\ ~ret.ended /\ ~ret.errored
    /\ ret' = [recorded(ret, "error", onError(ret.promise)) EXCEPT !.errored = TRUE]
    /\ UNCHANGED <<pc, arg, documents, apiKey, calls>>

CallTimeout ==
    /\ pc = "call"
    /\ ret.requests = 1
    /\ ~ret.timedOut /\ ~ret.ended /\ ~ret.errored
    /\ ret' = [recorded(ret, "timeout", onTimeout(ret.promise)) EXCEPT !.timedOut = TRUE]
    /\ UNCHANGED <<pc, arg, documents, apiKey, calls>>

NextCall ==
    \/ CallStart
    \/ \E reply \in Replies : CallResponseEnd(reply)
    \/ CallRequestError
    \/ CallTimeout

SpecCall == InitCall /\ [][NextCall]_vars

(* the executor runs when the call is made, and the socket's idle timer     *)
(* fires unless the request ends or fails first                             *)
FairSpecCall == SpecCall /\ WF_vars(CallStart) /\ WF_vars(CallTimeout)

----------------------------------------------------------------------------
(* Claims about the inference call                                          *)

Success2xx(status) == status >= 200 /\ status <= 299

HasGeneratedText(v) == v.json = "object" /\ v.generated # Undefined

(* one of the two accepted shapes: an object with a generated-text field,   *)
(* or a non-empty array whose first element is such an object               *)
AcceptedShape(body) ==
    \/ HasGeneratedText(body)
    \/ body.json = "array" /\ Len(body.elems) > 0 /\ HasGeneratedText(body.elems[1])

AcceptedText(body) ==
    IF HasGeneratedText(body) THEN body.generated[1] ELSE body.elems[1].generated[1]

(* the event that came first after the request was issued *)
FirstEvent(call) == IF Len(call.history) > 1 THEN call.history[2] ELSE "none"

(* C11: a completed response that has a non-2xx status, or a body that does *)
(* not parse, or a body of neither accepted shape (null, an empty array, an *)
(* array whose first element is null, ...) makes the call return empty      *)
(* text, and the call never ends with an error because of such a response:  *)
(* an error it ends with comes from the timeout that fired before.          *)
C11_BadResponseGivesEmptyText ==
    (/\ pc = "call" /\ ret.ended
     /\ \/ ~Success2xx(ret.reply.status)
        \/ ret.reply.body.json = "malformed"
        \/ ~AcceptedShape(ret.reply.body)) =>
        /\ FirstEvent(ret) = "end" => ret.promise = Resolved(<<>>)
        /\ ret.promise.state = "rejected" =>
               /\ FirstEvent(ret) = "timeout"
               /\ ret.promise = Rejected(TimedOutMessage)

(* a status-200 response whose body is an array with null first came first *)
C11_Witness ==
    /\ pc = "call" /\ ret.ended /\ FirstEvent(ret) = "end"
    /\ ret.reply = Reply(200, JsonArray(<<JsonNull, JsonObject(Some(TextTwo))>>))
    /\ ret.promise = Resolved(<<>>)

(* C12: when the timeout fires before the response completes, the call ends *)
(* with the timeout error, which its caller receives; empty text is only    *)
(* ever the outcome of a completed response, never of a timeout.            *)
C12_TimeoutIsAnError ==
    /\ (pc = "call" /\ FirstEvent(ret) = "timeout") =>
           ret.promise = Rejected(TimedOutMessage)
    /\ (pc = "call" /\ ret.promise = Resolved(<<>>)) => FirstEvent(ret) = "end"

(* the timeout fired and nothing else happened *)
C12_Witness ==
    /\ pc = "call" /\ ret.history = <<"start", "timeout">>
    /\ ret.promise = Rejected(TimedOutMessage)

(* C17 as stated: a response with a 2xx status and a body of an accepted    *)
(* shape with non-empty generated text makes the call return that text.     *)
C17_SuccessGivesGeneratedText ==
    (/\ pc = "call" /\ FirstEvent(ret) = "end"
     /\ Success2xx(ret.reply.status)
     /\ AcceptedShape(ret.reply.body)
     /\ AcceptedText(ret.reply.body) # <<>>) =>
        ret.promise = Resolved(AcceptedText(ret.reply.body))

(* C17 as amended: the same for a response with status 200, the only        *)
(* status the call takes as success.                                        *)
C17_Status200GivesGeneratedText ==
    (/\ pc = "call" /\ FirstEvent(ret) = "end"
     /\ ret.reply.status = OkStatus
     /\ AcceptedShape(ret.reply.body)
     /\ AcceptedText(ret.reply.body) # <<>>) =>
        ret.promise = Resolved(AcceptedText(ret.reply.body))

(* a status-200 array body answered with the text of its first element *)
C17_Witness ==
    /\ pc = "call" /\ FirstEvent(ret) = "end"
    /\ ret.reply = Reply(200, JsonArray(<<JsonObject(Some(TextOne)), JsonObject(Some(TextTwo))>>))
    /\ ret.promise = Resolved(TextOne)

(* the outcome the first event fixes *)
OutcomeOfFirst(call) ==
    CASE FirstEvent(call) = "end" ->
             Resolved(responseText(call.reply.status, call.reply.body))
      [] FirstEvent(call) = "error" -> Rejected(TransportError)
      [] FirstEvent(call) = "timeout" -> Rejected(TimedOutMessage)
      [] OTHER -> call.promise

(* C18: a call delivers exactly one outcome: once its promise is settled no *)
(* later event changes it, the outcome is the one of the event that came    *)
(* first (the missing credential, else the first of response end, transport *)
(* error and timeout), a response or error after the timeout leaves it as   *)
(* it was, and every call that was made is settled eventually.              *)
C18_ExactlyOneOutcome ==
    /\ [](pc = "call" =>
            /\ ret.changes <= 1
            /\ ret.promise.state # "pending" <=> ret.changes = 1
            /\ ~apiKey => ret.promise = Rejected(MissingKeyMessage)
            /\ (apiKey /\ ret.promise.state # "pending") =>
                   /\ ret.reply = NoReply => FirstEvent(ret) # "end"
                   /\ ret.promise = OutcomeOfFirst(ret))
    /\ [][(pc = "call" /\ ret.promise.state # "pending") => ret'.promise = ret.promise]_vars
    /\ (pc = "input") ~> (pc = "call" /\ ret.promise.state # "pending")

(* a response completed after the timeout had fired *)
C18_Witness ==
    /\ pc = "call" /\ ret.history = <<"start", "timeout", "end">>
    /\ ret.reply = Reply(200, JsonObject(Some(TextOne)))
    /\ ret.promise = Rejected(TimedOutMessage)

----------------------------------------------------------------------------
(* Harness for the context window of onCompletion: every document over      *)
(* DocAlphabet up to MaxDocLen characters (one to MaxDocLen + 1 lines) and  *)
(* every cursor line from 0 to MaxCursorLine.                               *)

DocAlphabet == {"a", "\n"}

InitContext ==
    /\ pc = "input"
    /\ \E t \in SeqsUpTo(DocAlphabet, MaxDocLen) : \E l \in 0..MaxCursorLine :
           arg = [text |-> t, line |-> l]
    /\ ret = <<>>
    /\ documents = IdleDocuments
    /\ apiKey = TRUE
    /\ calls = IdleCalls

ContextStep ==
    /\ pc = "input"
    /\ pc' = "context"
    /\ ret' = contextLines(split(arg.text, "\n"), arg.line)
    /\ UNCHANGED <<arg, documents, apiKey, calls>>

(* the same window through the handler: the context of the prompt *)
ContextPromptStep ==
    /\ pc = "input"
    /\ pc' = "prompt"
    /\ ret' = onCompletionBegin([u \in {OpenUri} |-> arg.text],
                                PositionRequest("completion", OpenUri, arg.line, 0)).prompt
    /\ UNCHANGED <<arg, documents, apiKey, calls>>

NextContext == ContextStep \/ ContextPromptStep

SpecContext == InitContext /\ [][NextContext]_vars

(* the k-th line (0-based) of a text, by counting line breaks *)
RECURSIVE LineAt(_, _)
LineAt(text, k) ==
    LET brk == CHOOSE i \in 1..(Len(text) + 1) :
                   /\ i = Len(text) + 1 \/ text[i] = "\n"
                   /\ \A j \in 1..(i - 1) : text[j] # "\n"
    IN  IF k = 0 THEN SubSeq(text, 1, brk - 1)
        ELSE LineAt(SubSeq(text, brk + 1, Len(text)), k - 1)

WindowStart(line) == IF line > 5 THEN line - 5 ELSE 0

(* C14: the context window has at most 6 lines; its first line is line      *)
(* max(0, cursorLine - 5) of the document and its k-th line is the k-th     *)
(* from there, so none is before line 0 or after the cursor line; it        *)
(* holds every line of the document in that range; and the context in the  *)
(* prompt is these lines, one per line, or empty when there is none.        *)
C14_ContextWindowBounded ==
    /\ pc = "context" =>
           /\ Len(ret) <= 6
           /\ \A k \in 1..Len(ret) :
                  /\ WindowStart(arg.line) + k - 1 >= 0
                  /\ WindowStart(arg.line) + k - 1 <= arg.line
                  /\ WindowStart(arg.line) + k - 1 < LineCount(arg.text)
                  /\ ret[k] = LineAt(arg.text, WindowStart(arg.line) + k - 1)
           /\ Len(ret) = Cardinality({n \in WindowStart(arg.line)..arg.line :
                                          n < LineCount(arg.text)})
    /\ pc = "prompt" =>
           /\ LineCount(ret.a) <= 6
           /\ IF WindowStart(arg.line) < LineCount(arg.text)
              THEN \A k \in 0..(LineCount(ret.a) - 1) :
                       /\ WindowStart(arg.line) + k <= arg.line
                       /\ WindowStart(arg.line) + k < LineCount(arg.text)
                       /\ LineAt(ret.a, k) = LineAt(arg.text, WindowStart(arg.line) + k)
              ELSE ret.a = <<>>

(* a window of 6 lines that starts after line 0 and stops at the cursor     *)
(* line "a", with lines of the document left on both sides                  *)
C14_Witness ==
    /\ pc = "context"
    /\ Len(ret) = 6
    /\ arg.line = 6
    /\ LineCount(arg.text) = 8
    /\ ret[6] = <<"a">>

----------------------------------------------------------------------------
(* Claims about the doc-resolve parser                                      *)

(* the text after the first line break; empty when there is none *)
AfterFirstBreak(text) ==
    IF \E i \in 1..Len(text) : text[i] = "\n"
    THEN LET brk == CHOOSE i \in 1..Len(text) :
                        text[i] = "\n" /\ \A j \in 1..(i - 1) : text[j] # "\n"
         IN  SubSeq(text, brk + 1, Len(text))
    ELSE <<>>

(* C15: detail is the trimmed first line; documentation is the trimmed      *)
(* rest of the text (the remaining lines joined), or the trimmed first      *)
(* line when that rest is blank; so documentation is blank only when        *)
(* detail is.  The label is left as it was.                                 *)
C15_ResolveDetailAndDocumentation ==
    pc = "resolve" =>
        LET summary == trim(LineAt(arg.text, 0))
            remainder == trim(AfterFirstBreak(arg.text))
        IN  /\ ret.label \in {item.label : item \in Items}
            /\ ret.detail = Some(summary)
            /\ ret.documentation = Some(IF remainder # <<>> THEN remainder ELSE summary)
            /\ ret.detail[1] # <<>> => ret.documentation[1] # <<>>

(* a summary line followed by a blank remainder: documentation falls back *)
C15_Witness ==
    /\ pc = "resolve"
    /\ arg.text = <<"a", "\n", " ">>
    /\ ret.detail = Some(<<"a">>)
    /\ ret.documentation = Some(<<"a">>)

----------------------------------------------------------------------------
(* Harness for the signature parser: every generated text over              *)
(* SignatureAlphabet up to MaxSignatureLen and two worked examples, parsed  *)
(* for a cursor at the end of the line "f(a,".                              *)

SignatureAlphabet == {"(", ")", ",", "a", " ", "\n"}

(* "f(x, y)" *)
ExampleSignature == <<"f", "(", "x", ",", " ", "y", ")">>

(* "f(x," / " y)" *)
ExampleWrappedSignature == <<"f", "(", "x", ",", "\n", " ", "y", ")">>

SignatureTexts ==
    SeqsUpTo(SignatureAlphabet, MaxSignatureLen)
        \cup {ExampleSignature, ExampleWrappedSignature}

SignatureLine == <<"f", "(", "a", ",">>

InitSignature ==
    /\ pc = "input"
    /\ \E t \in SignatureTexts : arg = [text |-> t]
    /\ ret = <<>>
    /\ documents = IdleDocuments
    /\ apiKey = TRUE
    /\ calls = IdleCalls

(* onSignatureHelp after the inference call *)
SignatureParseStep ==
    /\ pc = "input"
    /\ pc' = "signature"
    /\ ret' = signatureHelp(arg.text, SignatureLine, Len(SignatureLine))
    /\ UNCHANGED <<arg, documents, apiKey, calls>>

(* the regular expression by itself *)
ParamMatchStep ==
    /\ pc = "input"
    /\ pc' = "match"
    /\ ret' = paramMatch(trim(arg.text))
    /\ UNCHANGED <<arg, documents, apiKey, calls>>

NextSignature == SignatureParseStep \/ ParamMatchStep

SpecSignature == InitSignature /\ [][NextSignature]_vars

----------------------------------------------------------------------------
(* Claims about the signature parser                                        *)

(* the first '(' of the text and the first ')' after it; 0 when missing *)
FirstOpen(text) ==
    IF \E i \in 1..Len(text) : text[i] = "("
    THEN CHOOSE i \in 1..Len(text) : text[i] = "(" /\ \A j \in 1..(i - 1) : text[j] # "("
    ELSE 0

FirstCloseAfter(text, open) ==
    IF \E i \in (open + 1)..Len(text) : text[i] = ")"
    THEN CHOOSE i \in (open + 1)..Len(text) :
             text[i] = ")" /\ \A j \in (open + 1)..(i - 1) : text[j] # ")"
    ELSE 0

HasPair(text) == FirstOpen(text) > 0 /\ FirstCloseAfter(text, FirstOpen(text)) > 0

(* the content of the first parenthesis pair *)
PairContent(text) ==
    SubSeq(text, FirstOpen(text) + 1, FirstCloseAfter(text, FirstOpen(text)) - 1)

(* the comma-separated fields of a text, in order *)
RECURSIVE Fields(_)
Fields(s) ==
    IF \E i \in 1..Len(s) : s[i] = ","
    THEN LET c == CHOOSE i \in 1..Len(s) : s[i] = "," /\ \A j \in 1..(i - 1) : s[j] # ","
         IN  <<SubSeq(s, 1, c - 1)>> \o Fields(SubSeq(s, c + 1, Len(s)))
    ELSE <<s>>

ExpectedParameters(text) ==
    IF HasPair(text) /\ PairContent(text) # <<>>
    THEN [i \in 1..Len(Fields(PairContent(text))) |->
             [label |-> trim(Fields(PairContent(text))[i]),
              documentation |->
                  <<"P", "a", "r", "a", "m", "e", "t", "e", "r", " ", DigitChar(i)>>]]
    ELSE <<>>

(* C16: the signature label is the trimmed text, and the parameters are     *)
(* the comma-separated fields of the content of the first parenthesis pair  *)
(* (from the first '(' to the first ')' after it), trimmed, in order, the   *)
(* i-th documented "Parameter i"; none when there is no pair or the pair    *)
(* is empty.  Stated for the texts whose pair, if any, is empty or has no   *)
(* blank field.                                                             *)
C16_ParametersOfFirstPair ==
    (/\ pc = "signature"
     /\ (HasPair(arg.text) /\ PairContent(arg.text) # <<>>) =>
            \A i \in 1..Len(Fields(PairContent(arg.text))) :
                trim(Fields(PairContent(arg.text))[i]) # <<>>) =>
        /\ Len(ret.signatures) = 1
        /\ ret.signatures[1].label = trim(arg.text)
        /\ ret.signatures[1].parameters = ExpectedParameters(arg.text)

====
